---------------------------- MODULE Spec2Model ----------------------------
(***************************************************************************)
(* A model of the repository's documentation workflow                      *)
(* (.github/workflows/generate-documentation.yml) and of the recursions    *)
(* stated in the example notebooks.                                        *)
(*                                                                         *)
(* The workflow part is a state machine over the events delivered to the   *)
(* repository and the runs they start.  A run executes the steps of the    *)
(* single job `build` one at a time, on one runner; a step is one atomic   *)
(* action whose outcome (exit status of the external tool) is free.        *)
(***************************************************************************)
EXTENDS Integers, Sequences, FiniteSets, TLC

VARIABLES
    events,     \* the events delivered so far, in order of delivery
    runs,       \* run id -> the run started by events[id] (run ids are
                \* the delivery numbers of the events that started a run)
    s,          \* seasonal component: the periodicity (number of seasons)
    sigma,      \* seasonal component: bound of the disturbance omega_t
    gamma,      \* seasonal component: gamma_1 .. gamma_t
    mc_i,       \* breakdown exercise: the Monte Carlo iterations done
    random_idx, \* breakdown exercise: the indices drawn in the last one
    y,          \* breakdown exercise: the response of the last iteration,
                \* index -> "normal" or "contaminated"
    sim_pc,         \* simulate_seasonal_term: called, loop, done or raised
    periodicity,    \* its argument periodicity
    cycles2,        \* its argument total_cycles, in halves
    noise_std,      \* its argument noise_std
    harmonics_arg,  \* its argument harmonics (0 for None)
    seed,           \* the seed of the random stream
    drawn,          \* the random numbers drawn from the stream so far
    gamma_jt,       \* gamma_{j,t}, j = 1 .. harmonics
    gamma_star_jt,  \* gamma*_{j,t}, j = 1 .. harmonics
    sim_t,          \* the time steps simulated
    series,         \* the array series
    wanted          \* the array returned

wfvars == <<events, runs>>
seasvars == <<s, sigma, gamma>>
mcvars == <<mc_i, random_idx, y>>
simargs == <<periodicity, cycles2, noise_std, harmonics_arg, seed>>
simvars == <<sim_pc, periodicity, cycles2, noise_std, harmonics_arg, seed, drawn,
             gamma_jt, gamma_star_jt, sim_t, series, wanted>>
vars == <<events, runs, s, sigma, gamma, mc_i, random_idx, y,
          sim_pc, periodicity, cycles2, noise_std, harmonics_arg, seed, drawn,
          gamma_jt, gamma_star_jt, sim_t, series, wanted>>

-----------------------------------------------------------------------------
(* Bounds of the model *)

\* events delivered in one behaviour
MaxEvents == 2
\* largest periodicity s of the seasonal component
MaxSeasons == 4
\* seasonal values gamma_1 .. gamma_MaxTime are computed
MaxTime == 8
\* the s-1 starting seasonal values are drawn from -MaxStart .. MaxStart
MaxStart == 1
\* breakdown exercise: the number of observations (nobs, 200 in the notebook)
NObs == 8
\* breakdown exercise: the Monte Carlo iterations (mc_iter, 500 in the notebook)
MaxIter == 2
\* simulate_seasonal_term: total_cycles is 0, 1/2, .. MaxCycles2/2
MaxCycles2 == 2
\* simulate_seasonal_term: noise_std is 1 .. MaxStd
MaxStd == 1
\* simulate_seasonal_term: the random stream is seeded with 1 .. MaxSeed
MaxSeed == 2

-----------------------------------------------------------------------------
(* The workflow file *)

\* name: (line 1); the value of github.workflow
Workflow == "Generate Documentation"

\* The events the model delivers.  github.head_ref is set for pull_request
\* events only; the payload of a release event, and of no other, has the
\* key `release`.  A head ref is any branch name the author of the pull
\* request chose, "1" included.
Events ==
    { [name |-> "release", action |-> "published", branch |-> "", head_ref |-> "",
       release |-> [tag_name |-> "v0.14.0"]],
      [name |-> "release", action |-> "created", branch |-> "", head_ref |-> "",
       release |-> [tag_name |-> "v0.14.0"]],
      [name |-> "push", action |-> "", branch |-> "main", head_ref |-> ""],
      [name |-> "push", action |-> "", branch |-> "dev", head_ref |-> ""],
      [name |-> "pull_request", action |-> "", branch |-> "", head_ref |-> "fix"],
      [name |-> "pull_request", action |-> "", branch |-> "", head_ref |-> "1"],
      [name |-> "workflow_dispatch", action |-> "", branch |-> "", head_ref |-> ""] }

\* on.release.types: [published]
OnRelease(ev) == ev.name = "release" /\ ev.action \in {"published"}

OnPushAnyBranch(ev) == ev.name = "push"
\* on.push.branches: [main]
OnPush(ev) == ev.name = "push" /\ ev.branch \in {"main"}

\* on.pull_request: (no filter)
OnPullRequest(ev) == ev.name = "pull_request"

\* on: the events that start a run of the workflow
Triggers(ev) == OnRelease(ev) \/ OnPush(ev) \/ OnPullRequest(ev)

\* The steps of jobs.build, in the order of the file
Steps ==
    << "Checkout",
       "Checkout statsmodels.github.io without token",
       "Checkout statsmodels.github.io with token",
       "Event type",
       "Install pandoc",
       "Install graphviz",
       "Set up Python 3.10",
       "Install dependencies",
       "Install statsmodels",
       "Build documentation",
       "Move and commit documentation",
       "Push changes" >>

NumSteps == Len(Steps)

\* The index of the step called `name`
StepNo(name) == CHOOSE k \in 1..NumSteps : Steps[k] = name

WithoutToken == StepNo("Checkout statsmodels.github.io without token")
WithToken == StepNo("Checkout statsmodels.github.io with token")
Checkout == StepNo("Checkout")
InstallDeps == StepNo("Install dependencies")
BuildDocs == StepNo("Build documentation")
CommitDocs == StepNo("Move and commit documentation")
PushChanges == StepNo("Push changes")

WithoutTokenIfHeadRef(ev) == ev.head_ref = "fix"
WithoutTokenAlways(ev) == TRUE
\* if: ${{ github.event_name == 'pull_request' }}
WithoutTokenIf(ev) == ev.name = "pull_request"

WithTokenAlways(ev) == TRUE
\* if: ${{ github.event_name == 'release' || github.event_name == 'push' }}
WithTokenIf(ev) == ev.name = "release" \/ ev.name = "push"

PushChangesAlways(ev) == TRUE
\* if: ${{ github.event_name == 'release' || github.event_name == 'push' }}
PushChangesIf(ev) == ev.name = "release" \/ ev.name = "push"

StepIfCommitGuarded(k, ev) ==
    CASE k = WithoutToken -> WithoutTokenIf(ev)
      [] k = WithToken -> WithTokenIf(ev)
      [] k = CommitDocs -> ev.name = "release" \/ ev.name = "push"
      [] k = PushChanges -> PushChangesIf(ev)
      [] OTHER -> TRUE
\* The condition of step k in a run started by ev.  A step without `if:`
\* runs whenever every earlier step succeeded.
StepIf(k, ev) ==
    CASE k = WithoutToken -> WithoutTokenIf(ev)
      [] k = WithToken -> WithTokenIf(ev)
      [] k = PushChanges -> PushChangesIf(ev)
      [] OTHER -> TRUE

GitTagFromRefName(ev) == IF ev.name = "push" THEN ev.branch ELSE ev.head_ref
\* env: GIT_TAG: ${{ github.event.release.tag_name }}
\* (a property of a missing object evaluates to the empty string)
GitTag(ev) == IF "release" \in DOMAIN ev THEN ev.release.tag_name ELSE ""

GroupKeyRunIdOnly(ev, id) == ToString(id)
\* ${{ github.head_ref || github.run_id }}: the head ref unless it is empty
GroupKey(ev, id) == IF ev.head_ref # "" THEN ev.head_ref ELSE ToString(id)

\* concurrency.group: ${{ github.workflow }}-${{ github.head_ref || github.run_id }}
Group(ev, id) == Workflow \o "-" \o GroupKey(ev, id)

CancelInProgressOff == FALSE
\* concurrency.cancel-in-progress: true
CancelInProgress == TRUE

\* with.token / env.PERSONAL_ACCESS_TOKEN: ${{ secrets.DOCBUILD_TOKEN }}: the
\* steps that are given the secret
UsesToken(k) == k \in {WithToken, PushChanges}

-----------------------------------------------------------------------------
(* Runs *)

Terminal(r) == runs[r].status \in {"success", "failure", "cancelled"}

\* The steps a run has executed (started and run to their exit), in order
Executed(r) == { runs[r].log[i] : i \in 1..Len(runs[r].log) }

NewRun(ev) ==
    [ event |-> ev,
      status |-> "in_progress",
      pc |-> 1,               \* the next step of jobs.build.steps
      log |-> <<>>,           \* the steps executed, in order of execution
      failed |-> 0,           \* the step that exited non-zero, if any
      GIT_TAG |-> <<>>,       \* the GIT_TAG the commit step was given
      cancelledBy |-> 0 ]     \* the run whose arrival cancelled this one

\* The runs the arrival of run `id` with event ev cancels
Cancelled(ev, id) ==
    { r \in DOMAIN runs :
        /\ CancelInProgress
        /\ runs[r].status = "in_progress"
        /\ Group(runs[r].event, r) = Group(ev, id) }

\* An event is delivered to the repository: it starts a run when `on:`
\* names it, and the new run cancels the runs in progress in its group.
Deliver(ev) ==
    /\ Len(events) < MaxEvents
    /\ events' = Append(events, ev)
    /\ LET id == Len(events) + 1 IN
       IF Triggers(ev)
       THEN runs' = [ r \in DOMAIN runs \cup {id} |->
                        IF r = id THEN NewRun(ev)
                        ELSE IF r \in Cancelled(ev, id)
                             THEN [runs[r] EXCEPT !.status = "cancelled",
                                                  !.cancelledBy = id]
                             ELSE runs[r] ]
       ELSE runs' = runs
    /\ UNCHANGED <<seasvars, mcvars, simvars>>

NextStepSkipsBuild(k) == IF k + 1 = BuildDocs THEN k + 2 ELSE k + 1
\* The step after step k
NextStep(k) == k + 1

StatusAfterNeverDone(k) == "in_progress"
\* The status of a run whose step k has succeeded or was skipped
StatusAfter(k) == IF k = NumSteps THEN "success" ELSE "in_progress"

\* The environment the step is given
EnvAfter(run, k) ==
    IF k = CommitDocs THEN <<GitTag(run.event)>> ELSE run.GIT_TAG

\* A step that is skipped: the runner goes on to the next one
AfterSkip(run, k) == [run EXCEPT !.pc = NextStep(k), !.status = StatusAfter(k)]

\* A step that exited zero
AfterSuccess(run, k) ==
    [run EXCEPT !.pc = NextStep(k), !.status = StatusAfter(k),
                !.log = Append(@, k), !.GIT_TAG = EnvAfter(run, k)]

AfterFailureContinue(run, k) ==
    [run EXCEPT !.pc = NextStep(k), !.status = StatusAfter(k), !.failed = k,
                !.log = Append(@, k), !.GIT_TAG = EnvAfter(run, k)]
AfterFailureRetry(run, k) ==
    [run EXCEPT !.failed = k, !.log = Append(@, k), !.GIT_TAG = EnvAfter(run, k)]
\* A step that exited non-zero: no step sets continue-on-error and no later
\* step has a condition that holds after a failure, so the run ends failed
AfterFailure(run, k) ==
    [run EXCEPT !.status = "failure", !.failed = k,
                !.log = Append(@, k), !.GIT_TAG = EnvAfter(run, k)]

\* The runner of run r takes the next step: skips it when its condition is
\* false, otherwise executes it; ok is whether it exits zero.
RunStep(r, ok) ==
    /\ r \in DOMAIN runs
    /\ runs[r].status = "in_progress"
    /\ runs[r].pc <= NumSteps
    /\ LET run == runs[r]
           k == run.pc
       IN  runs' = [runs EXCEPT ![r] =
                      IF ~StepIf(k, run.event) THEN AfterSkip(run, k)
                      ELSE IF ok THEN AfterSuccess(run, k)
                      ELSE AfterFailure(run, k)]
    /\ UNCHANGED <<events, seasvars, mcvars, simvars>>

-----------------------------------------------------------------------------
(* The seasonal component of the unobserved components model *)

RECURSIVE SumSeq(_)
SumSeq(q) == IF q = <<>> THEN 0 ELSE Head(q) + SumSeq(Tail(q))

\* The last n entries of q
LastN(q, n) == SubSeq(q, Len(q) - n + 1, Len(q))

SeasonalNextShort(g, per, omega) == -SumSeq(LastN(g, per - 2)) + omega
\* gamma_{t+1} = - sum_{j=1}^{s-1} gamma_{t+1-j} + omega_t
SeasonalNext(g, per, omega) == -SumSeq(LastN(g, per - 1)) + omega

\* One time step of the seasonal component
SeasonalStep(omega) ==
    /\ Len(gamma) < MaxTime
    /\ omega \in -sigma..sigma
    /\ gamma' = Append(gamma, SeasonalNext(gamma, s, omega))
    /\ UNCHANGED <<wfvars, s, sigma, mcvars, simvars>>

-----------------------------------------------------------------------------
(* The breakdown-point exercise of the robust regression notebook *)

\* contaminate = 0.25, in hundredths
ContaminatePercent == 25

\* int(contaminate * nobs)
NumContaminated(n) == (ContaminatePercent * n) \div 100

\* np.random.randint(0, nobs, size=k): k indices, each drawn from
\* 0 .. nobs-1 independently of the others
RandInt(n, k) == [1..k -> 0..(n - 1)]

\* y[random_idx] = value: the entries named by idx are overwritten
Overwrite(resp, idx) ==
    [i \in DOMAIN resp |->
        IF \E q \in 1..Len(idx) : idx[q] = i THEN "contaminated" ELSE resp[i]]

\* One iteration of the Monte Carlo loop: a fresh response, the indices
\* drawn, the entries overwritten, the robust fit appended to all_betas
MCIteration(idx) ==
    /\ mc_i < MaxIter
    /\ idx \in RandInt(NObs, NumContaminated(NObs))
    /\ random_idx' = idx
    /\ y' = Overwrite([i \in 0..(NObs - 1) |-> "normal"], idx)
    /\ mc_i' = mc_i + 1
    /\ UNCHANGED <<wfvars, seasvars, simvars>>

-----------------------------------------------------------------------------
(* simulate_seasonal_term of the seasonal notebook section *)

\* total_timesteps = 100 * duration  # Pad for burn in
BurnIn == 100

\* The periodicities simulated: those whose cosines and sines are integers
Periodicities == {1, 2, 4}

\* The values of the argument harmonics: None (0) or 1
HarmonicsArgs == {0, 1}

\* duration = periodicity * total_cycles, in halves
Duration2(p, c2) == p * c2

AlwaysIntegral(d2) == TRUE
\* duration == int(duration)
IsIntegral(d2) == d2 % 2 = 0

\* int(duration)
IntOf(d2) == d2 \div 2

\* harmonics if harmonics else int(np.floor(periodicity / 2))
Harmonics(h, p) == IF h # 0 THEN h ELSE p \div 2

\* np.cos(lambda_p * j) with lambda_p = 2 pi / periodicity: the exact value
\* (the floating-point one differs from it by rounding)
Cos(p, j) ==
    CASE p = 1 -> 1
      [] p = 2 -> IF j % 2 = 0 THEN 1 ELSE -1
      [] p = 4 -> CASE j % 4 = 0 -> 1 [] j % 4 = 2 -> -1 [] OTHER -> 0

\* np.sin(lambda_p * j)
Sin(p, j) ==
    CASE p = 1 -> 0
      [] p = 2 -> 0
      [] p = 4 -> CASE j % 4 = 1 -> 1 [] j % 4 = 3 -> -1 [] OTHER -> 0

\* np.random.randn: the n-th number of the stream seeded with sd; the stream
\* is fixed by the seed, and drawing from it advances it
Randn(sd, n) == (((n * (n + sd)) \div 7) % 3) - 1

\* noise_std * np.random.randn(h), drawn after `before` earlier numbers
RandnVec(sd, std, before, h) == [j \in 1..h |-> std * Randn(sd, before + j)]

\* total_timesteps
TotalTimesteps(d) == BurnIn * d

WantedFirst(ser, d) == SubSeq(ser, 1, d)
\* series[-duration:] (the whole array when duration is 0)
WantedSeries(ser, d) ==
    IF d = 0 THEN ser ELSE SubSeq(ser, Len(ser) - d + 1, Len(ser))

StepPairSequential(g, gs, c, sn, n1, n2) ==
    LET g1 == g * c + gs * sn + n1 IN <<g1, -g1 * sn + gs * c + n2>>
\* The new pair of one harmonic: gamma_jtp1[j - 1] and gamma_star_jtp1[j - 1],
\* both from the pair of the step before; n1 and n2 are the two noise terms
StepPair(g, gs, c, sn, n1, n2) ==
    <<g * c + gs * sn + n1, -g * sn + gs * c + n2>>

\* The new pair of harmonic j in the step taken after `before` draws
NewPair(j, before) ==
    StepPair(gamma_jt[j], gamma_star_jt[j],
             Cos(periodicity, j), Sin(periodicity, j),
             noise_std * Randn(seed, before + 2 * (j - 1) + 1),
             noise_std * Randn(seed, before + 2 * (j - 1) + 2))

\* The function up to its loop: the assertion on duration, then harmonics,
\* the two starting vectors and the array of zeros
SimStart ==
    /\ sim_pc = "called"
    /\ LET d2 == Duration2(periodicity, cycles2)
           h == Harmonics(harmonics_arg, periodicity)
       IN  IF ~IsIntegral(d2)
           THEN /\ sim_pc' = "raised"
                /\ UNCHANGED <<drawn, gamma_jt, gamma_star_jt, series>>
           ELSE /\ sim_pc' = "loop"
                /\ gamma_jt' = RandnVec(seed, noise_std, 0, h)
                /\ gamma_star_jt' = RandnVec(seed, noise_std, h, h)
                /\ drawn' = 2 * h
                /\ series' = [i \in 1..TotalTimesteps(IntOf(d2)) |-> 0]
    /\ UNCHANGED <<wfvars, seasvars, mcvars, simargs, sim_t, wanted>>

\* One pass of `for t in range(total_timesteps)`
SimTimeStep ==
    /\ sim_pc = "loop"
    /\ sim_t < Len(series)
    /\ LET h == Len(gamma_jt)
           gamma_jtp1 == [j \in 1..h |-> NewPair(j, drawn)[1]]
           gamma_star_jtp1 == [j \in 1..h |-> NewPair(j, drawn)[2]]
       IN  /\ series' = [series EXCEPT ![sim_t + 1] = SumSeq(gamma_jtp1)]
           /\ gamma_jt' = gamma_jtp1
           /\ gamma_star_jt' = gamma_star_jtp1
           /\ drawn' = drawn + 2 * h
    /\ sim_t' = sim_t + 1
    /\ UNCHANGED <<wfvars, seasvars, mcvars, simargs, sim_pc, wanted>>

\* After the loop: the burn in is discarded and the rest returned
SimReturn ==
    /\ sim_pc = "loop"
    /\ sim_t = Len(series)
    /\ wanted' = WantedSeries(series, IntOf(Duration2(periodicity, cycles2)))
    /\ sim_pc' = "done"
    /\ UNCHANGED <<wfvars, seasvars, mcvars, simargs, drawn, gamma_jt,
                   gamma_star_jt, sim_t, series>>

-----------------------------------------------------------------------------
(* Specifications *)

WorkflowInit == events = <<>> /\ runs = <<>>

SeasonalIdle == s = 2 /\ sigma = 0 /\ gamma = <<0>>

\* The starting values gamma_1 .. gamma_{s-1} are free
SeasonalInit ==
    /\ s \in 2..MaxSeasons
    /\ sigma \in {0, 1}
    /\ gamma \in [1..(s - 1) -> -MaxStart..MaxStart]

\* Before the loop: all_betas = []
MCInit ==
    /\ mc_i = 0
    /\ random_idx = <<>>
    /\ y = [i \in 0..(NObs - 1) |-> "normal"]

\* simulate_seasonal_term is not called
SimIdle ==
    /\ sim_pc = "idle"
    /\ periodicity = 1 /\ cycles2 = 0 /\ noise_std = 1 /\ harmonics_arg = 0
    /\ seed = 1 /\ drawn = 0 /\ sim_t = 0
    /\ gamma_jt = <<>> /\ gamma_star_jt = <<>> /\ series = <<>> /\ wanted = <<>>

\* simulate_seasonal_term is called with some arguments
SimCall ==
    /\ sim_pc = "called"
    /\ periodicity \in Periodicities
    /\ cycles2 \in 0..MaxCycles2
    /\ noise_std \in 1..MaxStd
    /\ harmonics_arg \in HarmonicsArgs
    /\ seed \in 1..MaxSeed
    /\ drawn = 0 /\ sim_t = 0
    /\ gamma_jt = <<>> /\ gamma_star_jt = <<>> /\ series = <<>> /\ wanted = <<>>

Init == WorkflowInit /\ SeasonalIdle /\ MCInit /\ SimIdle

Next == (\E ev \in Events : Deliver(ev)) \/ (\E r \in 1..MaxEvents, ok \in BOOLEAN : RunStep(r, ok))

Spec == Init /\ [][Next]_vars

\* The runner keeps executing the steps of a run in progress, and each
\* external tool terminates
FairSpec == Spec /\ \A r \in 1..MaxEvents : WF_vars(\E ok \in BOOLEAN : RunStep(r, ok))

InitSeasonal == WorkflowInit /\ SeasonalInit /\ MCInit /\ SimIdle

NextSeasonal == \E omega \in -1..1 : SeasonalStep(omega)

SpecSeasonal == InitSeasonal /\ [][NextSeasonal]_vars

InitMC == WorkflowInit /\ SeasonalIdle /\ MCInit /\ SimIdle

NextMC == \E idx \in RandInt(NObs, NumContaminated(NObs)) : MCIteration(idx)

SpecMC == InitMC /\ [][NextMC]_vars

InitSim == WorkflowInit /\ SeasonalIdle /\ MCInit /\ SimCall

NextSim == SimStart \/ SimTimeStep \/ SimReturn

SpecSim == InitSim /\ [][NextSim]_vars

-----------------------------------------------------------------------------
(* Properties of the workflow *)

RunIds == DOMAIN runs

\* Run r executed step k
Did(r, k) == \E i \in 1..Len(runs[r].log) : runs[r].log[i] = k

\* The place of step k in the log of run r
Pos(r, k) == CHOOSE i \in 1..Len(runs[r].log) : runs[r].log[i] = k

\* C1: the step "Push changes" executes only in a run whose event is
\* release or push; a pull_request run never executes it, whatever the
\* outcome of its other steps.
C1_PushOnlyOnReleaseOrPush ==
    \A r \in RunIds :
        /\ Did(r, PushChanges) => runs[r].event.name \in {"release", "push"}
        /\ runs[r].event.name = "pull_request" => ~Did(r, PushChanges)

\* A run that pushed, and a pull_request run whose steps all succeeded
C1_Witness ==
    /\ \E r \in RunIds : PushChanges \in Executed(r)
    /\ \E r \in RunIds : runs[r].event.name = "pull_request" /\ runs[r].status = "success"

\* One of the three kinds of event the claim names
StartingKind(ev) ==
    \/ ev.name = "release" /\ ev.action = "published"
    \/ ev.name = "push" /\ ev.branch = "main"
    \/ ev.name = "pull_request"

\* C2: a delivered event starts a run exactly when it is a release being
\* published, a push to main or a pull_request event; a push to another
\* branch, a release action other than published, or any other event starts
\* no run.
C2_TriggerSurface ==
    /\ RunIds \subseteq 1..Len(events)
    /\ \A i \in 1..Len(events) : i \in RunIds <=> StartingKind(events[i])
    /\ \A r \in RunIds : runs[r].event = events[r]

\* A push to another branch and a release that was only created were
\* delivered and started nothing
C2_Witness ==
    /\ Len(events) = 2
    /\ \E i \in 1..Len(events) : events[i].name = "push" /\ events[i].branch = "dev"
    /\ \E i \in 1..Len(events) : events[i].name = "release" /\ events[i].action = "created"
    /\ RunIds = {}

\* The ref a run is for: the branch pushed to, or the head ref of the pull
\* request
RefOf(ev) == IF ev.name = "push" THEN ev.branch ELSE ev.head_ref

Before(done, failed, a, b) ==
    b \in done =>
        /\ a \in done
        /\ a < b
        /\ failed # a

\* C4: within a run the steps execute in the order checkout, install
\* dependencies, build documentation, commit, push; a step is executed only
\* after every earlier step that applies to the run has exited zero: the
\* log is increasing and holds exactly the applicable steps up to its last,
\* the only one that can have failed.
C4_StepOrder ==
    \A r \in RunIds :
        LET run == runs[r]
            log == run.log
            last == IF log = <<>> THEN 0 ELSE log[Len(log)]
            done == { log[i] : i \in 1..Len(log) }
        IN  /\ \A i \in 1..(Len(log) - 1) : log[i] < log[i + 1]
            /\ Before(done, run.failed, Checkout, InstallDeps)
            /\ Before(done, run.failed, InstallDeps, BuildDocs)
            /\ Before(done, run.failed, BuildDocs, CommitDocs)
            /\ Before(done, run.failed, CommitDocs, PushChanges)
            /\ done = { j \in 1..last : StepIf(j, run.event) }
            /\ run.failed \in {0, last}

\* A run that executed all five, push included
C4_Witness ==
    \E r \in RunIds : PushChanges \in Executed(r) /\ runs[r].status = "success"

\* C5: when "Build documentation" exits non-zero the run ends failed and
\* executes neither the commit step nor the push step; a successful run
\* had a build that exited zero.
C5_BuildFailureStopsRun ==
    \A r \in RunIds :
        /\ runs[r].failed = BuildDocs =>
             /\ runs[r].status = "failure"
             /\ CommitDocs \notin Executed(r)
             /\ PushChanges \notin Executed(r)
        /\ runs[r].status = "success" =>
             /\ BuildDocs \in Executed(r)
             /\ runs[r].failed = 0

\* A run whose build failed, and a run that succeeded
C5_Witness ==
    /\ \E r \in RunIds : runs[r].failed = BuildDocs
    /\ \E r \in RunIds : runs[r].status = "success"

\* C6 as stated: a pull_request run executes neither the commit step nor
\* the push step.
C6_Original ==
    \A r \in RunIds :
        runs[r].event.name = "pull_request" =>
            /\ CommitDocs \notin Executed(r)
            /\ PushChanges \notin Executed(r)

\* C6 (amended): the push to the documentation repository occurs only in
\* runs triggered by release or push; the commit step has no condition and
\* executes in every run that gets past the build, pull_request runs
\* included, where what it commits is never pushed.
C6_SideEffectOnlyPushed ==
    \A r \in RunIds :
        /\ Did(r, PushChanges) => runs[r].event.name \in {"release", "push"}
        /\ runs[r].pc > CommitDocs => Did(r, CommitDocs)
        /\ (runs[r].event.name = "pull_request" /\ runs[r].status = "success") =>
             /\ Did(r, CommitDocs)
             /\ ~Did(r, PushChanges)

\* A pull_request run that committed and ended without pushing
C6_Witness ==
    \E r \in RunIds :
        /\ runs[r].event.name = "pull_request"
        /\ runs[r].status = "success"
        /\ CommitDocs \in Executed(r)

\* C7: the GIT_TAG given to the commit step is a tag name only in a run
\* triggered by a release, where it is the tag of the release; in a run
\* triggered by push or pull_request it is empty.
C7_GitTagOnlyOnRelease ==
    \A r \in RunIds :
        runs[r].GIT_TAG # <<>> =>
            /\ runs[r].GIT_TAG[1] # "" => runs[r].event.name = "release"
            /\ runs[r].event.name \in {"push", "pull_request"} => runs[r].GIT_TAG[1] = ""
            /\ runs[r].event.name = "release" => runs[r].GIT_TAG[1] = "v0.14.0"

\* The commit step ran in a release run and in a push run
C7_Witness ==
    /\ \E r \in RunIds : runs[r].event.name = "release" /\ runs[r].GIT_TAG = <<"v0.14.0">>
    /\ \E r \in RunIds : runs[r].event.name = "push" /\ runs[r].GIT_TAG = <<"">>

\* C8: every run reaches a terminal state (success, failure or cancelled),
\* and a run in progress can always take its next step: it waits on no
\* other run.
C8_RunTerminates ==
    /\ \A r \in 1..MaxEvents :
          (r \in RunIds) ~> (r \in RunIds /\ Terminal(r))
    /\ [](\A r \in RunIds :
            runs[r].status = "in_progress" => ENABLED (\E ok \in BOOLEAN : RunStep(r, ok)))

\* A run ended cancelled while the run that cancelled it ended successful
C8_Witness ==
    \E i, j \in RunIds :
        /\ runs[i].status = "cancelled" /\ runs[i].cancelledBy = j
        /\ runs[j].status = "success"

\* The steps a run executes when every step exits zero, by kind of event
AllSteps == 1..NumSteps
PullRequestSteps == AllSteps \ {WithToken, PushChanges}
ReleaseOrPushSteps == AllSteps \ {WithoutToken}

\* C11 as stated: the steps executed are the same in every run; two runs in
\* which every step exited zero executed the same steps in the same order.
C11_Original ==
    \A i, j \in RunIds :
        (runs[i].status = "success" /\ runs[j].status = "success")
        => runs[i].log = runs[j].log

\* C11 (amended): the order of the steps is the same in every run, but the
\* set depends on the triggering event: a pull_request run executes every
\* step but the checkout with token and the push, a release or push run
\* every step but the checkout without token; nothing but the name of the
\* event decides which steps run.
C11_StepsDependOnEventOnly ==
    \A r \in RunIds :
        /\ \A i \in 1..(Len(runs[r].log) - 1) : runs[r].log[i] < runs[r].log[i + 1]
        /\ runs[r].status = "success" =>
             Executed(r) = IF runs[r].event.name = "pull_request"
                           THEN PullRequestSteps ELSE ReleaseOrPushSteps
        /\ runs[r].status = "success" =>
             \A q \in RunIds :
                (/\ runs[q].status = "success"
                 /\ runs[q].event.name = runs[r].event.name)
                => runs[q].log = runs[r].log

\* Two successful runs of the same kind of event for different refs, and
\* so with the same steps
C11_Witness ==
    \E i, j \in RunIds :
        /\ runs[i].event.head_ref = "fix" /\ runs[j].event.head_ref = "1"
        /\ runs[i].status = "success" /\ runs[j].status = "success"

\* C12: no step is retried or recovered: a run executes each step at most
\* once, and once a step has failed the run is over: the failed step is the
\* last one it executed and no step of the run can start any more.
C12_NoRetryNoRecovery ==
    \A r \in RunIds :
        /\ Cardinality(Executed(r)) = Len(runs[r].log)
        /\ runs[r].failed # 0 =>
             /\ runs[r].status = "failure"
             /\ runs[r].failed = runs[r].log[Len(runs[r].log)]
             /\ runs[r].pc = runs[r].failed
             /\ ~ENABLED (\E ok \in BOOLEAN : RunStep(r, ok))

\* A run whose first steps succeeded and whose dependencies failed to install
C12_Witness ==
    \E r \in RunIds : runs[r].failed = InstallDeps /\ Len(runs[r].log) > 1

\* C13: the two checkouts of statsmodels.github.io are never both executed,
\* which one is decided by the event (without token for pull_request, with
\* token for release and push), and every run that gets past them, and so
\* every run that builds, has executed exactly one of them.
C13_ExactlyOneDocsCheckout ==
    \A r \in RunIds :
        LET done == Executed(r)
            both == {WithoutToken, WithToken}
        IN  /\ Cardinality(done \cap both) <= 1
            /\ WithoutToken \in done => runs[r].event.name = "pull_request"
            /\ WithToken \in done => runs[r].event.name \in {"release", "push"}
            /\ (\E k \in done : k > WithToken) =>
                 /\ Cardinality(done \cap both) = 1
                 /\ runs[r].failed \notin both
            /\ BuildDocs \in done =>
                 \E c \in done \cap both : Pos(r, c) < Pos(r, BuildDocs)

\* A pull_request run and a push run that both built the documentation
C13_Witness ==
    /\ \E r \in RunIds : runs[r].event.name = "pull_request" /\ BuildDocs \in Executed(r)
    /\ \E r \in RunIds : runs[r].event.name = "push" /\ BuildDocs \in Executed(r)

\* C14: no step that a pull_request run executes is given the secret
\* DOCBUILD_TOKEN: the steps that reference it run for release and push only.
C14_NoTokenOnPullRequest ==
    \A r \in RunIds :
        LET given == \E k \in 1..NumSteps : UsesToken(k) /\ Did(r, k)
        IN  /\ runs[r].event.name = "pull_request" => ~given
            /\ given => runs[r].event.name \in {"release", "push"}

\* A pull_request run that ran to its end, and a run that was given the token
C14_Witness ==
    /\ \E r \in RunIds : runs[r].event.name = "pull_request" /\ runs[r].status = "success"
    /\ \E r \in RunIds : \E k \in Executed(r) : UsesToken(k)

\* The concurrency group of run r as the claim words it: the name of the
\* workflow, then the head ref when it is set and the run id otherwise
GroupOf(r) ==
    "Generate Documentation-" \o
        (IF runs[r].event.head_ref # "" THEN runs[r].event.head_ref ELSE ToString(r))

\* C15: at most one run is in progress in a concurrency group; a run that
\* enters a group cancels the run in progress there and itself proceeds.
C15_OneRunPerGroup ==
    \A i \in RunIds :
        /\ \A j \in RunIds :
             (i < j /\ GroupOf(i) = GroupOf(j)) => runs[i].status # "in_progress"
        /\ runs[i].status = "cancelled" <=> runs[i].cancelledBy # 0
        /\ runs[i].cancelledBy # 0 =>
             /\ runs[i].cancelledBy \in RunIds
             /\ runs[i].cancelledBy > i
             /\ GroupOf(runs[i].cancelledBy) = GroupOf(i)

\* A run was cancelled by the next run of its group, which has gone on
C15_Witness ==
    \E i, j \in RunIds :
        /\ runs[i].cancelledBy = j
        /\ runs[j].status = "in_progress" /\ runs[j].pc > 1

\* C16 as stated: the runs of push and release events have groups of their
\* own, so that no two of them share a group and none of them is ever
\* cancelled because of a later run.
C16_Claim ==
    \A i \in RunIds :
        runs[i].event.name \in {"push", "release"} =>
            /\ \A j \in RunIds :
                 (j # i /\ runs[j].event.name \in {"push", "release"})
                 => GroupOf(i) # GroupOf(j)
            /\ runs[i].status # "cancelled"

-----------------------------------------------------------------------------
(* Properties of the seasonal component *)

\* The sum of the s seasonal values gamma_{t-s+1} .. gamma_t
CycleSum(t) == SumSeq(SubSeq(gamma, t - s + 1, t))

\* C9: without the disturbance term, any s consecutive seasonal values sum
\* to zero.
C9_SeasonalSumsToZero ==
    sigma = 0 => \A t \in s..Len(gamma) : CycleSum(t) = 0

\* Two full cycles without disturbance, of values that are not all zero
C9_Witness ==
    /\ sigma = 0
    /\ s >= 3
    /\ Len(gamma) >= 2 * s
    /\ \E t \in 1..Len(gamma) : gamma[t] # 0

\* With the disturbance term the sum over a cycle need not be zero
C9_Stochastic == sigma = 1 /\ \E t \in s..Len(gamma) : CycleSum(t) # 0

-----------------------------------------------------------------------------
(* Properties of the breakdown-point exercise *)

\* The entries of the response that were overwritten
Contaminated == { i \in DOMAIN y : y[i] = "contaminated" }

\* C17 as stated: every iteration contaminates the fraction contaminate of
\* the response: exactly int(contaminate * nobs) distinct entries of y are
\* overwritten.
C17_Claim ==
    mc_i > 0 => Cardinality(Contaminated) = NumContaminated(NObs)

-----------------------------------------------------------------------------
(* Properties of simulate_seasonal_term *)

\* periodicity * total_cycles of the call, in halves
CallDuration2 == periodicity * cycles2

\* C18: the function simulates exactly 100 * duration time steps, with
\* duration = periodicity * total_cycles, and returns exactly the last
\* duration of them; for the notebook's calls (periodicities 10 and 100,
\* total_cycles 300 / periodicity) that is 300 entries.
C18_BurnInDiscarded ==
    /\ sim_pc = "done" =>
         LET d == CallDuration2 \div 2 IN
           /\ sim_t = 100 * d
           /\ Len(series) = 100 * d
           /\ Len(wanted) = d
           /\ \A i \in 1..d : wanted[i] = series[99 * d + i]
    /\ \A p \in {10, 100} :
         LET c2 == (2 * 300) \div p IN
           /\ IsIntegral(Duration2(p, c2))
           /\ Len(WantedSeries([i \in 1..TotalTimesteps(IntOf(Duration2(p, c2))) |-> 0],
                               IntOf(Duration2(p, c2)))) = 300

\* A call returned four entries that are not the first four simulated
C18_Witness ==
    /\ sim_pc = "done"
    /\ Len(wanted) = 4
    /\ wanted # SubSeq(series, 1, 4)
    /\ \E i \in 1..4 : wanted[i] # 0

\* C19: in a time step the new pair of each harmonic j is computed from the
\* pair (gamma_j, gamma*_j) of the step before and two fresh noise terms
\* only, the new gamma*_j from the old gamma_j, and the value recorded for
\* the step is the sum of the new gamma_j over the harmonics.
C19_SimultaneousUpdate ==
    [][ (sim_pc = "loop" /\ sim_t' = sim_t + 1) =>
          /\ Len(gamma_jt') = Len(gamma_jt)
          /\ Len(gamma_star_jt') = Len(gamma_jt)
          /\ \A j \in 1..Len(gamma_jt) :
               LET c == Cos(periodicity, j)
                   sn == Sin(periodicity, j)
                   n1 == noise_std * Randn(seed, drawn + 2 * j - 1)
                   n2 == noise_std * Randn(seed, drawn + 2 * j)
               IN  /\ gamma_jt'[j] = gamma_jt[j] * c + gamma_star_jt[j] * sn + n1
                   /\ gamma_star_jt'[j] = -gamma_jt[j] * sn + gamma_star_jt[j] * c + n2
          /\ series'[sim_t + 1] = SumSeq(gamma_jt')
          /\ \A i \in 1..Len(series) : i # sim_t + 1 => series'[i] = series[i]
      ]_vars

\* Steps were taken with two harmonics of periodicity 4, whose sine is not
\* zero, from a pair with both parts non-zero
C19_Witness ==
    /\ sim_pc = "loop"
    /\ periodicity = 4
    /\ Len(gamma_jt) = 2
    /\ sim_t >= 2
    /\ gamma_jt[1] # 0 /\ gamma_star_jt[1] # 0
    /\ series[sim_t] # 0

\* C20: when periodicity * total_cycles is not an integer the assertion
\* fails and the function raises before it draws a random number or
\* simulates a time step; when it is an integer the function goes on.
C20_NonIntegralDurationRaises ==
    /\ CallDuration2 % 2 # 0 =>
         /\ sim_pc \in {"called", "raised"}
         /\ drawn = 0 /\ sim_t = 0
         /\ gamma_jt = <<>> /\ gamma_star_jt = <<>> /\ series = <<>> /\ wanted = <<>>
    /\ sim_pc = "raised" => CallDuration2 % 2 # 0
    /\ (CallDuration2 % 2 = 0 /\ sim_pc # "called") => sim_pc \in {"loop", "done"}

\* A call with total_cycles = 1/2 and an odd periodicity has raised
C20_Witness == sim_pc = "raised" /\ periodicity = 1 /\ cycles2 = 1

=============================================================================
